---- MODULE Spec2Model ----
(***************************************************************************)
(* SACPolicy (ml-agents/mlagents/trainers/sac/policy.py): the orchestrator *)
(* that binds observation batches and experience minibatches to the named  *)
(* endpoints of a SACModel, runs inference and update passes, keeps the    *)
(* rolling reward and triggers the target-network synchronisation.         *)
(*                                                                         *)
(* Tensors are modelled by their shape (a sequence of dimensions) and the  *)
(* minibatch column or batch field they were taken from; the recurrent     *)
(* memory of an observation batch also carries its data.  The numeric      *)
(* model behind the endpoints (SACModel, the session) is a toy with one    *)
(* integer per parameter group, so that the order of passes is observable. *)
(***************************************************************************)
EXTENDS Integers, Sequences, FiniteSets, TLC

VARIABLES
    trainer_params,   \* constructor argument: the configuration mapping
    brain,            \* constructor argument: the brain parameters
    is_training,      \* constructor argument
    load,             \* constructor argument
    reward_signals,   \* self.reward_signals: the keys, in insertion order
    inference_dict,   \* self.inference_dict: the keys requested by evaluate
    model,            \* self.model and the session's variables
    calls,            \* the methods of the policy entered by the last operation
    sess_runs,        \* the executions of the session made by the last operation
    feed_dict,        \* the input frame of the last model execution
    ret,              \* what the last operation returned or raised
    brain_info,       \* the batch object of the last operation: before and after
    mini_batch,       \* the minibatch the last operation was given
    pre,              \* the model variables when the last operation started
    reward_args       \* the arguments of update_reward so far: the latest

vars == <<trainer_params, brain, is_training, load, reward_signals,
          inference_dict, model, calls, sess_runs, feed_dict, ret,
          brain_info, mini_batch, pre, reward_args>>

config == <<trainer_params, brain, is_training, load, reward_signals,
            inference_dict>>

(***************************************************************************)
(* Bounds of the model.                                                    *)
(***************************************************************************)
MaxSignals == 2      \* length of the configured reward-signal list
MaxAgents == 2       \* agents in an observation batch
MaxBatch == 2        \* sequences in a minibatch
MaxSeqLen == 2       \* configured sequence length
MaxVisual == 1       \* visual streams of the brain
MaxMemSize == 1      \* recurrent memory width
MaxReward == 2       \* rewards are 0..MaxReward
ParamMod == 3        \* parameter values are 0..ParamMod-1
MaxNormSteps == 2    \* cap of the normalization step counter

(***************************************************************************)
(* Helpers on sequences and shapes.                                        *)
(***************************************************************************)
RECURSIVE Prod(_)
Prod(shape) == IF shape = <<>> THEN 1 ELSE Head(shape) * Prod(Tail(shape))

RECURSIVE Sum(_)
Sum(s) == IF s = <<>> THEN 0 ELSE Head(s) + Sum(Tail(s))

Range(s) == {s[i] : i \in 1..Len(s)}

\* first position of x in s (0-based), Len(s) when absent: list.index
IndexOf(s, x) ==
    IF x \in Range(s) THEN (CHOOSE i \in 1..Len(s) :
                                s[i] = x /\ \A j \in 1..(i-1) : s[j] # x) - 1
    ELSE Len(s)

\* numpy flatten: one dimension holding every element
flatten(t) == [t EXCEPT !.shape = <<Prod(t.shape)>>]

\* numpy reshape([-1] + dims): the leading dimension is inferred
reshape(t, dims) == [t EXCEPT !.shape = <<Prod(t.shape) \div Prod(dims)>> \o dims]

(***************************************************************************)
(* Construction.                                                           *)
(***************************************************************************)
Recognized == <<"extrinsic", "curiosity", "gail", "entropy">>
SignalNames == Range(Recognized) \cup {"unknown"}

\* dict(zip(names, strengths)).keys(): each name once, at its first position
RECURSIVE DictKeys(_)
DictKeys(names) ==
    IF names = <<>> THEN <<>>
    ELSE LET rest == DictKeys(SubSeq(names, 1, Len(names) - 1))
             last == names[Len(names)]
         IN  IF last \in Range(rest) THEN rest ELSE Append(rest, last)

reward_strengths(tp) == DictKeys(tp.reward_signals)

stream_names(tp) == reward_strengths(tp)

\* the four "if name in reward_strengths.keys()" blocks, in program order
InitComponents(tp) ==
    SelectSeq(Recognized, LAMBDA name : name \in Range(reward_strengths(tp)))

use_recurrent == trainer_params.use_recurrent
sequence_length == trainer_params.sequence_length
m_size == trainer_params.memory_size
use_vec_obs == brain.vector_observation_space_size > 0
vec_obs_size == brain.vector_observation_space_size
use_continuous_act == brain.vector_action_space_type = "continuous"
act_size == brain.vector_action_space_size
vis_obs_size == brain.number_visual_observations

\* faulty variant: the loaded session is not excluded
InferenceDictIgnoringLoad(tp, b, training, ld) ==
    {"action", "log_probs", "value", "entropy", "learning_rate"}
    \cup (IF tp.use_recurrent THEN {"memory_out"} ELSE {})
    \cup (IF training /\ b.vector_observation_space_size > 0 /\ tp.normalize
          THEN {"update_mean"} ELSE {})

InferenceDict(tp, b, training, ld) ==
    {"action", "log_probs", "value", "entropy", "learning_rate"}
    \cup (IF tp.use_recurrent THEN {"memory_out"} ELSE {})
    \cup (IF training /\ b.vector_observation_space_size > 0
             /\ tp.normalize /\ ~ld
          THEN {"update_mean"} ELSE {})

update_dict ==
    {"value_loss", "policy_loss", "q1_loss", "q2_loss", "entropy_coef",
     "entropy", "update_batch", "update_value", "update_entropy"}

(***************************************************************************)
(* The model behind the endpoints: one integer per parameter group.        *)
(***************************************************************************)
Params == 0..(ParamMod - 1)
Rewards == 0..MaxReward

\* the reward-input slots of the model, one per stream name it was built with
rewards_holders == 0..(Len(model.stream_names) - 1)

\* target_init_op: the target network becomes a copy of the online network
target_init_op(m) == [m EXCEPT !.target = m.online]

\* target_update_op: the target moves halfway toward the online network
target_update_op(m) == [m EXCEPT !.target = (m.target + m.online) \div 2]

\* update_batch_policy, update_batch_value, update_batch_entropy in one pass
update_batch(m) ==
    [m EXCEPT !.online = (m.online + 1) % ParamMod,
              !.log_ent_coef = (m.log_ent_coef + 1) % ParamMod]

\* update_normalization: the running statistics take one more step
update_normalization(m) ==
    [m EXCEPT !.normalization_steps = m.normalization_steps + 1]

\* update_reward: tf.assign(last_reward, new_reward)
assign_last_reward(m, new_reward) == [m EXCEPT !.last_reward = new_reward]

\* one sess.run of the fetches of out_dict: the update ops among them act
_execute_model(m, out_dict) ==
    LET m1 == IF "update_mean" \in out_dict THEN update_normalization(m) ELSE m
    IN  IF {"update_batch", "update_value", "update_entropy"} \cap out_dict # {}
        THEN update_batch(m1) ELSE m1

\* _initialize_graph: every variable at its initial value
InitializedGraph(tp) ==
    [stream_names |-> stream_names(tp), online |-> 0, target |-> ParamMod - 1,
     log_ent_coef |-> 0, last_reward |-> 0, normalization_steps |-> 0]

\* _load_graph: every variable as the checkpoint holds it
LoadedGraphs(tp) ==
    {[stream_names |-> stream_names(tp), online |-> o, target |-> t,
      log_ent_coef |-> o, last_reward |-> 0, normalization_steps |-> 0] :
        o \in Params, t \in Params}

(***************************************************************************)
(* The state after SACPolicy.__init__.                                     *)
(***************************************************************************)
\* the lists of at most n names of S, no name twice
BoundedSeqs(S, n) ==
    {s \in UNION {[1..k -> S] : k \in 0..n} :
        \A i, j \in 1..Len(s) : s[i] = s[j] => i = j}

Constructed(tp, b, training, ld) ==
    /\ trainer_params = tp
    /\ brain = b
    /\ is_training = training
    /\ load = ld
    /\ reward_signals = InitComponents(tp)
    /\ model \in (IF ld THEN LoadedGraphs(tp)
                        ELSE {target_init_op(InitializedGraph(tp))})
    /\ inference_dict = InferenceDict(tp, b, training, ld)
    /\ calls = <<"__init__">>
    /\ sess_runs = IF ld THEN <<>> ELSE <<{"target_init_op"}>>
    /\ feed_dict = <<>>
    /\ ret = [kind |-> "None"]
    /\ brain_info = <<>>
    /\ mini_batch = <<>>
    /\ pre = model
    /\ reward_args = <<>>

(***************************************************************************)
(* Observation batches (BrainInfo) and experience minibatches.             *)
(***************************************************************************)
ImageShape == <<2, 2, 1>>      \* width, height, channels of a visual stream
MemVals == {0, 1}

Tensor(name, shape) == [name |-> name, shape |-> shape]

\* the empty placeholder: no columns
EmptyMemories(n) == [shape |-> <<n, 0>>, data |-> [i \in 1..n |-> <<>>]]

\* memories whose rows differ: row i holds (v + i) % 2 in every column
Memories(n, width) ==
    {[shape |-> <<n, width>>,
      data |-> [i \in 1..n |-> [j \in 1..width |-> (v + i) % 2]]] : v \in MemVals}

BatchOf(n, mem) ==
    [agents |-> n,
     vector_observations |-> Tensor("vector_observations", <<n, vec_obs_size>>),
     visual_observations |->
         [i \in 1..vis_obs_size |->
             Tensor("visual_observations" \o ToString(i - 1), <<n>> \o ImageShape)],
     previous_vector_actions |->
         Tensor("previous_vector_actions", <<n, Len(act_size)>>),
     memories |-> mem]

\* batches whose modalities agree on the agent count; the memory is the empty
\* placeholder or, in recurrent mode, one the caller threaded from earlier calls
BrainInfos ==
    UNION {{BatchOf(n, mem) :
                mem \in {EmptyMemories(n)} \cup
                        (IF use_recurrent THEN Memories(n, m_size) ELSE {})} :
           n \in 0..MaxAgents}

\* Policy.make_empty_memory: np.zeros((num_agents, self.m_size))
make_empty_memory(num_agents) ==
    [shape |-> <<num_agents, m_size>>,
     data |-> [i \in 1..num_agents |-> [j \in 1..m_size |-> 0]]]

\* faulty variant: the emptiness test reads the row count, shape[0]
SeedMemoriesByRows(bi) ==
    IF use_recurrent /\ bi.memories.shape[1] = 0
    THEN [bi EXCEPT !.memories = make_empty_memory(bi.agents)]
    ELSE bi

\* brain_info.memories after the lazy seed of evaluate and get_value_estimates
SeedMemories(bi) ==
    IF use_recurrent /\ bi.memories.shape[2] = 0
    THEN [bi EXCEPT !.memories = make_empty_memory(bi.agents)]
    ELSE bi

\* Policy.fill_eval_dict: the observation bindings of the model
fill_eval_dict(fd, bi) ==
    (IF use_vec_obs THEN "vector_in" :> bi.vector_observations ELSE <<>>)
    @@ ("visual_in" :> [i \in 0..(Len(bi.visual_observations) - 1) |->
                            bi.visual_observations[i + 1]])
    @@ fd

\* the input frame evaluate builds from the (seeded) batch
EvaluateFeedDict(bi) ==
    LET seeded == SeedMemories(bi)
    IN  fill_eval_dict(
            ("batch_size" :> bi.vector_observations.shape[1])
            @@ ("sequence_length" :> 1)
            @@ (IF use_recurrent /\ ~use_continuous_act
                THEN "prev_action" :>
                        reshape(bi.previous_vector_actions, <<Len(act_size)>>)
                ELSE <<>>)
            @@ (IF use_recurrent THEN "memory_in" :> seeded.memories ELSE <<>>),
            seeded)

NormalizationRoom ==
    "update_mean" \in inference_dict => model.normalization_steps < MaxNormSteps

\* the body of evaluate, entered through the methods named in entered
EvaluateBody(bi, entered, result) ==
    /\ NormalizationRoom
    /\ calls' = entered
    /\ feed_dict' = EvaluateFeedDict(bi)
    /\ sess_runs' = <<inference_dict>>
    /\ model' = _execute_model(model, inference_dict)
    /\ ret' = result
    /\ brain_info' = [in |-> bi, out |-> SeedMemories(bi)]
    /\ mini_batch' = <<>>
    /\ pre' = model
    /\ UNCHANGED <<config, reward_args>>

evaluate(bi) ==
    EvaluateBody(bi, <<"evaluate">>, [kind |-> "run_out", keys |-> inference_dict])

\* run_out.get(key)
Get(run_out, key) == IF key \in run_out THEN key ELSE "None"

ActionInfo(action, memory, text, value, outputs) ==
    [kind |-> "ActionInfo", action |-> action, memory |-> memory, text |-> text,
     value |-> value, outputs |-> outputs]

\* faulty variant: no short-circuit on an empty batch
get_action_unguarded(bi) ==
    EvaluateBody(bi, <<"get_action", "evaluate">>,
        ActionInfo(Get(inference_dict, "action"),
                   Get(inference_dict, "memory_out"), "None",
                   Get(inference_dict, "value"), "run_out"))

get_action(bi) ==
    IF bi.agents = 0
    THEN /\ calls' = <<"get_action">>
         /\ ret' = ActionInfo("[]", "[]", "[]", "None", "None")
         /\ feed_dict' = <<>>
         /\ sess_runs' = <<>>
         /\ brain_info' = [in |-> bi, out |-> bi]
         /\ mini_batch' = <<>>
         /\ pre' = model
         /\ UNCHANGED <<config, model, reward_args>>
    ELSE EvaluateBody(bi, <<"get_action", "evaluate">>,
             ActionInfo(Get(inference_dict, "action"),
                        Get(inference_dict, "memory_out"), "None",
                        Get(inference_dict, "value"), "run_out"))

\* one row of a tensor, wrapped in a list: [t[idx]]
Row(t) == [t EXCEPT !.shape = <<1>> \o Tail(t.shape)]

get_value_estimates(bi, idx) ==
    LET seeded == SeedMemories(bi)
    IN  /\ idx \in 0..(bi.agents - 1)
        /\ calls' = <<"get_value_estimates">>
        /\ feed_dict' =
              ("batch_size" :> 1) @@ ("sequence_length" :> 1)
              @@ ("visual_in" :> [i \in 0..(Len(bi.visual_observations) - 1) |->
                                     Row(bi.visual_observations[i + 1])])
              @@ (IF use_vec_obs THEN "vector_in" :> Row(bi.vector_observations)
                  ELSE <<>>)
              @@ (IF use_recurrent
                  THEN "memory_in" :> [shape |-> <<1, seeded.memories.shape[2]>>,
                                       data |-> <<seeded.memories.data[idx + 1]>>]
                  ELSE <<>>)
              @@ (IF ~use_continuous_act /\ use_recurrent
                  THEN "prev_action" :> Row(bi.previous_vector_actions)
                  ELSE <<>>)
        /\ sess_runs' = <<{"value"}>>
        /\ model' = _execute_model(model, {"value"})
        /\ ret' = [kind |-> "value_estimate"]
        /\ brain_info' = [in |-> bi, out |-> seeded]
        /\ mini_batch' = <<>>
        /\ pre' = model
        /\ UNCHANGED <<config, reward_args>>

(***************************************************************************)
(* update.                                                                 *)
(***************************************************************************)
\* "{}_rewards".format(name)
RewardsColumn(name) == name \o "_rewards"

Columns(names, shape) == [c \in names |-> Tensor(c, shape)]

\* a minibatch of B sequences with reward columns for the names given; its
\* visual columns are 5-dimensional (per sequence) or 4-dimensional (collapsed)
MiniBatch(B, names, rank, next_rank) ==
    LET L == sequence_length
        Visual(r) == IF r = 5 THEN <<B, L>> \o ImageShape ELSE <<B * L>> \o ImageShape
    IN  Columns({"masks", "done"} \cup {RewardsColumn(n) : n \in names}, <<B, L>>)
        @@ Columns({"actions"},
                   <<B, L, IF use_continuous_act THEN act_size[1] ELSE Len(act_size)>>)
        @@ Columns({"prev_action"}, <<B, L, Len(act_size)>>)
        @@ Columns({"action_mask"}, <<B, L, Sum(act_size)>>)
        @@ Columns({"vector_obs", "next_vector_in"}, <<B, L, vec_obs_size>>)
        @@ Columns({"visual_obs" \o ToString(i) : i \in 0..(vis_obs_size - 1)},
                   Visual(rank))
        @@ Columns({"next_visual_obs" \o ToString(i) : i \in 0..(vis_obs_size - 1)},
                   Visual(next_rank))
        @@ Columns({"memory"}, <<B, L, m_size>>)

\* faulty variant: the sequence dimension is never collapsed
BindVisualNoCollapse(obs) == obs

\* the binding of one visual column
BindVisual(obs) ==
    IF sequence_length > 1 /\ use_recurrent
    THEN reshape(obs, SubSeq(obs.shape, 3, 5))
    ELSE obs

\* mini_batch["memory"][:, 0, :]
FirstStep(t) == [t EXCEPT !.shape = <<t.shape[1], t.shape[3]>>]

\* the exception raised while the input frame is built, if any
UpdateError(batch) ==
    LET missing == SelectSeq(reward_signals,
                       LAMBDA name : RewardsColumn(name) \notin DOMAIN batch)
        unpacked == {c \in DOMAIN batch :
                        \E i \in 0..(vis_obs_size - 1) :
                            c \in {"visual_obs" \o ToString(i),
                                   "next_visual_obs" \o ToString(i)}}
    IN  IF missing # <<>>
        THEN [kind |-> "KeyError", key |-> RewardsColumn(Head(missing))]
        ELSE IF /\ sequence_length > 1 /\ use_recurrent
                /\ \E c \in unpacked : Len(batch[c].shape) # 5
             THEN [kind |-> "ValueError", key |-> "_obs.shape"]
             ELSE [kind |-> "None"]

UpdateFeedDict(batch, num_sequences) ==
    ("batch_size" :> num_sequences)
    @@ ("sequence_length" :> sequence_length)
    @@ ("mask_input" :> flatten(batch["masks"]))
    @@ ("rewards_holders" :>
            [i \in 0..(Len(reward_signals) - 1) |->
                flatten(batch[RewardsColumn(reward_signals[i + 1])])])
    @@ (IF use_continuous_act
        THEN "action_holder" :> reshape(batch["actions"], <<act_size[1]>>)
        ELSE ("action_holder" :> reshape(batch["actions"], <<Len(act_size)>>))
             @@ (IF use_recurrent
                 THEN "prev_action" :>
                          reshape(batch["prev_action"], <<Len(act_size)>>)
                 ELSE <<>>)
             @@ ("action_masks" :>
                     reshape(batch["action_mask"], <<Sum(act_size)>>)))
    @@ (IF use_vec_obs
        THEN ("vector_in" :> reshape(batch["vector_obs"], <<vec_obs_size>>))
             @@ ("next_vector_in" :>
                     reshape(batch["next_vector_in"], <<vec_obs_size>>))
        ELSE <<>>)
    @@ (IF vis_obs_size > 0
        THEN ("visual_in" :>
                 [i \in 0..(vis_obs_size - 1) |->
                     BindVisual(batch["visual_obs" \o ToString(i)])])
             @@ ("next_visual_in" :>
                     [i \in 0..(vis_obs_size - 1) |->
                         BindVisual(batch["next_visual_obs" \o ToString(i)])])
        ELSE <<>>)
    @@ (IF use_recurrent THEN "memory_in" :> FirstStep(batch["memory"])
        ELSE <<>>)
    @@ ("dones_holder" :> flatten(batch["done"]))

\* faulty variant: the target sync runs before the main pass
UpdatePassesSyncFirst(m, update_target) ==
    IF update_target
    THEN [model |-> _execute_model(target_update_op(m), update_dict),
          runs |-> <<{"target_update_op"}, update_dict>>]
    ELSE [model |-> _execute_model(m, update_dict), runs |-> <<update_dict>>]

\* faulty variant: the target sync runs whatever update_target says
UpdatePassesAlwaysSync(m, update_target) ==
    [model |-> target_update_op(_execute_model(m, update_dict)),
     runs |-> <<update_dict, {"target_update_op"}>>]

\* the main pass, then the target sync when asked for
UpdatePasses(m, update_target) ==
    LET main == _execute_model(m, update_dict)
    IN  IF update_target
        THEN [model |-> target_update_op(main),
              runs |-> <<update_dict, {"target_update_op"}>>]
        ELSE [model |-> main, runs |-> <<update_dict>>]

\* faulty variant: the passes run before the frame's error is raised
update_checks_late(batch, num_sequences, update_target) ==
    LET error == UpdateError(batch)
        passes == UpdatePasses(model, update_target)
    IN  /\ calls' = <<"update">>
        /\ brain_info' = <<>>
        /\ mini_batch' = batch
        /\ pre' = model
        /\ ret' = IF error.kind # "None" THEN error
                  ELSE [kind |-> "run_out", keys |-> update_dict,
                        update_target |-> update_target]
        /\ feed_dict' = IF error.kind # "None" THEN <<>>
                        ELSE UpdateFeedDict(batch, num_sequences)
        /\ sess_runs' = passes.runs
        /\ model' = passes.model
        /\ UNCHANGED <<config, reward_args>>

update(batch, num_sequences, update_target) ==
    LET error == UpdateError(batch)
        passes == UpdatePasses(model, update_target)
    IN  /\ calls' = <<"update">>
        /\ brain_info' = <<>>
        /\ mini_batch' = batch
        /\ pre' = model
        /\ IF error.kind # "None"
           THEN /\ ret' = error
                /\ feed_dict' = <<>>
                /\ sess_runs' = <<>>
                /\ model' = model
           ELSE /\ ret' = [kind |-> "run_out", keys |-> update_dict,
                           update_target |-> update_target]
                /\ feed_dict' = UpdateFeedDict(batch, num_sequences)
                /\ sess_runs' = passes.runs
                /\ model' = passes.model
        /\ UNCHANGED <<config, reward_args>>

(***************************************************************************)
(* Reward bookkeeping.                                                     *)
(***************************************************************************)
get_last_reward ==
    /\ calls' = <<"get_last_reward">>
    /\ sess_runs' = <<{"last_reward"}>>
    /\ feed_dict' = <<>>
    /\ ret' = [kind |-> "float", value |-> model.last_reward]
    /\ brain_info' = <<>>
    /\ mini_batch' = <<>>
    /\ pre' = model
    /\ UNCHANGED <<config, model, reward_args>>

\* the history of update_reward's arguments, cut to the latest
Remember(args, new_reward) == <<new_reward>>

\* faulty variant: the new reward is added to the old one
update_reward_accumulates(new_reward) ==
    /\ calls' = <<"update_reward">>
    /\ sess_runs' = <<{"update_reward"}>>
    /\ feed_dict' = ("new_reward" :> new_reward)
    /\ model' = assign_last_reward(model, model.last_reward + new_reward)
    /\ ret' = [kind |-> "None"]
    /\ brain_info' = <<>>
    /\ mini_batch' = <<>>
    /\ pre' = model
    /\ reward_args' = Remember(reward_args, new_reward)
    /\ UNCHANGED config

update_reward(new_reward) ==
    /\ calls' = <<"update_reward">>
    /\ sess_runs' = <<{"update_reward"}>>
    /\ feed_dict' = ("new_reward" :> new_reward)
    /\ model' = assign_last_reward(model, new_reward)
    /\ ret' = [kind |-> "None"]
    /\ brain_info' = <<>>
    /\ mini_batch' = <<>>
    /\ pre' = model
    /\ reward_args' = Remember(reward_args, new_reward)
    /\ UNCHANGED config

(***************************************************************************)
(* Specifications.                                                         *)
(***************************************************************************)
\* the minibatches update is called with: reward columns for some of the
\* configured stream names, visual columns (when the brain has any) of either rank
MiniBatches(B) ==
    {MiniBatch(B, names, ranks[1], ranks[2]) :
        names \in SUBSET Range(model.stream_names),
        ranks \in IF vis_obs_size > 0 THEN {4, 5} \X {4, 5} ELSE {<<5, 5>>}}

Next ==
    \/ \E bi \in BrainInfos : evaluate(bi)
    \/ \E bi \in BrainInfos : get_action(bi)
    \/ \E bi \in BrainInfos : \E idx \in 0..(MaxAgents - 1) :
           get_value_estimates(bi, idx)
    \/ \E B \in 1..MaxBatch : \E batch \in MiniBatches(B) :
       \E update_target \in BOOLEAN : update(batch, B, update_target)
    \/ get_last_reward
    \/ \E new_reward \in Rewards : update_reward(new_reward)

VectorBrain ==
    [vector_observation_space_size |-> 2, number_visual_observations |-> 0,
     vector_action_space_type |-> "continuous", vector_action_space_size |-> <<2>>]

\* the configurations of the reward signals, on a feed-forward vector brain
Init ==
    \E signals \in BoundedSeqs(SignalNames, MaxSignals) :
        Constructed([reward_signals |-> signals, normalize |-> FALSE,
                     use_recurrent |-> FALSE, sequence_length |-> 1,
                     memory_size |-> 1],
                    VectorBrain, TRUE, FALSE)

Spec == Init /\ [][Next]_vars

\* the modes of inference: training, loading, normalization, vector
\* observations, recurrence and the memory width, with one reward signal
InitInference ==
    \E training \in BOOLEAN : \E ld \in BOOLEAN : \E n \in BOOLEAN :
    \E v \in {0, 2} : \E r \in BOOLEAN :
    \E ms \in IF r THEN 1..MaxMemSize ELSE {1} :
        Constructed([reward_signals |-> <<"extrinsic">>, normalize |-> n,
                     use_recurrent |-> r, sequence_length |-> 1,
                     memory_size |-> ms],
                    [VectorBrain EXCEPT !.vector_observation_space_size = v,
                                        !.vector_action_space_type = "discrete",
                                        !.vector_action_space_size = <<2, 2>>],
                    training, ld)

SpecInference == InitInference /\ [][Next]_vars

\* the shapes of the visual streams: sequence length, recurrence, stream count
InitVisual ==
    \E l \in 1..MaxSeqLen : \E r \in BOOLEAN : \E k \in 1..MaxVisual :
        Constructed([reward_signals |-> <<"extrinsic">>, normalize |-> FALSE,
                     use_recurrent |-> r, sequence_length |-> l,
                     memory_size |-> 1],
                    [VectorBrain EXCEPT !.number_visual_observations = k],
                    TRUE, FALSE)

SpecVisual == InitVisual /\ [][Next]_vars

(***************************************************************************)
(* Properties.                                                             *)
(***************************************************************************)
UpdateSucceeded == calls = <<"update">> /\ ret.kind = "run_out"
Evaluated == "evaluate" \in Range(calls)

\* C1: the slot update binds a registered signal's "<name>_rewards" column to
\* is the position of that name in the stream-name list the model was built with.
C1_BindingMatchesStreamNames ==
    UpdateSucceeded =>
        \A i \in DOMAIN feed_dict["rewards_holders"] :
        \A name \in Range(reward_signals) :
            feed_dict["rewards_holders"][i].name = RewardsColumn(name)
                => IndexOf(model.stream_names, name) = i

LacksRewardColumn ==
    /\ calls = <<"update">>
    /\ \E name \in Range(reward_signals) : RewardsColumn(name) \notin DOMAIN mini_batch

\* C3: an update whose minibatch lacks the reward column of a registered signal
\* raises at that call, before any model pass: no execution of the session, and
\* the model's variables are as they were.
C3_MissingColumnFailsBeforeAnyPass ==
    LacksRewardColumn =>
        /\ ret.kind = "KeyError"
        /\ \E name \in Range(reward_signals) :
               ret.key = RewardsColumn(name) /\ ret.key \notin DOMAIN mini_batch
        /\ sess_runs = <<>>
        /\ model = pre

C3_Witness ==
    /\ LacksRewardColumn
    /\ Len(reward_signals) = 2
    /\ RewardsColumn(reward_signals[1]) \in DOMAIN mini_batch
    /\ ret.kind = "KeyError"
    /\ pre.online # 0

\* C4: a successful update with update_target runs the target sync exactly once,
\* after the main pass: the target is averaged toward the online parameters as
\* the main pass of this call left them.
C4_TargetSyncAfterMainPass ==
    (UpdateSucceeded /\ ret.update_target) =>
        /\ sess_runs = <<update_dict, {"target_update_op"}>>
        /\ model.online = (pre.online + 1) % ParamMod
        /\ model.target = (pre.target + model.online) \div 2

C4_Witness ==
    /\ UpdateSucceeded /\ ret.update_target
    /\ model.online # pre.online
    /\ model.target # (pre.target + pre.online) \div 2
    /\ model.target # pre.target

\* C5: get_action on a batch with zero agents returns the empty decision without
\* entering evaluate and without any execution of the session; the model's
\* variables and the batch are unchanged.
C5_EmptyBatchShortCircuits ==
    (calls[1] = "get_action" /\ brain_info.in.agents = 0) =>
        /\ calls = <<"get_action">>
        /\ sess_runs = <<>>
        /\ ret = ActionInfo("[]", "[]", "[]", "None", "None")
        /\ model = pre
        /\ brain_info.out = brain_info.in

C5_Witness ==
    /\ calls = <<"get_action">>
    /\ brain_info.in.agents = 0
    /\ use_recurrent
    /\ "update_mean" \in inference_dict
    /\ ret.outputs = "None"

\* C6: in recurrent mode evaluate binds an all-zero memory of shape
\* (agent count, memory size) when the batch's memory is the empty placeholder,
\* and the supplied memory unchanged otherwise; without recurrence it binds none.
C6_LazyZeroMemory ==
    Evaluated =>
        IF use_recurrent
        THEN /\ "memory_in" \in DOMAIN feed_dict
             /\ IF brain_info.in.memories.shape[2] = 0
                THEN LET bound == feed_dict["memory_in"]
                     IN  /\ bound.shape = <<brain_info.in.agents, m_size>>
                         /\ Len(bound.data) = brain_info.in.agents
                         /\ \A i \in 1..Len(bound.data) :
                                /\ Len(bound.data[i]) = m_size
                                /\ \A j \in 1..m_size : bound.data[i][j] = 0
                ELSE feed_dict["memory_in"] = brain_info.in.memories
        ELSE "memory_in" \notin DOMAIN feed_dict

C6_Witness ==
    /\ calls = <<"evaluate">>
    /\ use_recurrent
    /\ brain_info.in.agents = MaxAgents
    /\ brain_info.in.memories.shape = <<MaxAgents, 0>>
    /\ feed_dict["memory_in"].shape = <<MaxAgents, m_size>>

\* C7: update_reward replaces the rolling reward by its argument, and
\* get_last_reward is a pure read returning the argument of the most recent
\* update_reward.
C7_RewardReplacement ==
    /\ calls = <<"update_reward">> =>
           /\ model.last_reward = feed_dict["new_reward"]
           /\ model.last_reward = reward_args[Len(reward_args)]
           /\ model = [pre EXCEPT !.last_reward = feed_dict["new_reward"]]
    /\ calls = <<"get_last_reward">> =>
           /\ model = pre
           /\ ret.value = model.last_reward
           /\ reward_args # <<>> => ret.value = reward_args[Len(reward_args)]

C7_Witness ==
    /\ calls = <<"update_reward">>
    /\ pre.last_reward > 0
    /\ feed_dict["new_reward"] > 0
    /\ feed_dict["new_reward"] # pre.last_reward
    /\ model.last_reward = feed_dict["new_reward"]

\* C8 as stated: evaluate requests the normalization update exactly when
\* normalization is enabled, training is active and the policy was not loaded.
C8_Original ==
    Evaluated =>
        ("update_mean" \in sess_runs[1]
            <=> (trainer_params.normalize /\ is_training /\ ~load))

\* C8, amended: evaluate requests the normalization update exactly when
\* normalization is enabled, training is active, the brain has vector
\* observations and the policy was not loaded; a loaded policy never runs it.
C8_NormalizationUpdateGate ==
    /\ Evaluated =>
           /\ "update_mean" \in sess_runs[1]
                  <=> (trainer_params.normalize /\ is_training /\ use_vec_obs
                       /\ ~load)
           /\ model.normalization_steps = pre.normalization_steps
                  + (IF "update_mean" \in sess_runs[1] THEN 1 ELSE 0)
    /\ load =>
           /\ \A i \in 1..Len(sess_runs) : "update_mean" \notin sess_runs[i]
           /\ model.normalization_steps = pre.normalization_steps

C8_Witness ==
    /\ Evaluated
    /\ "update_mean" \in sess_runs[1]
    /\ model.normalization_steps = MaxNormSteps

\* C9: update binds a visual column of shape (B, L, W, H, C) with shape
\* (B*L, W, H, C) when the sequence length exceeds 1 and recurrence is on, and
\* with its shape unchanged otherwise; current and next-step columns alike.
C9_VisualReshape ==
    UpdateSucceeded =>
        \A i \in 0..(vis_obs_size - 1) :
        \A io \in {<<"visual_obs", "visual_in">>,
                   <<"next_visual_obs", "next_visual_in">>} :
            LET obs == mini_batch[io[1] \o ToString(i)]
                bound == feed_dict[io[2]][i]
            IN  /\ bound.name = obs.name
                /\ IF sequence_length > 1 /\ use_recurrent
                   THEN /\ Len(obs.shape) = 5
                        /\ bound.shape = <<obs.shape[1] * obs.shape[2],
                                           obs.shape[3], obs.shape[4], obs.shape[5]>>
                   ELSE bound.shape = obs.shape

C9_Witness ==
    /\ UpdateSucceeded
    /\ sequence_length = MaxSeqLen /\ use_recurrent
    /\ mini_batch["visual_obs0"].shape = <<MaxBatch, MaxSeqLen>> \o ImageShape
    /\ feed_dict["visual_in"][0].shape = <<MaxBatch * MaxSeqLen>> \o ImageShape
    /\ feed_dict["next_visual_in"][0].shape = <<MaxBatch * MaxSeqLen>> \o ImageShape

\* C10: the target sync runs only in a successful update with update_target,
\* the target initialization only in the construction of a policy that is not
\* loaded; every other operation leaves the target parameters as they were.
C10_TargetSyncOnlyByUpdate ==
    LET syncing == UpdateSucceeded /\ ret.update_target
    IN  /\ \A i \in 1..Len(sess_runs) :
               /\ "target_update_op" \in sess_runs[i] => syncing
               /\ "target_init_op" \in sess_runs[i] => (calls = <<"__init__">> /\ ~load)
        /\ ~syncing => model.target = pre.target

C10_Witness ==
    /\ UpdateSucceeded
    /\ ~ret.update_target
    /\ model.online # pre.online
    /\ model.target = pre.target
    /\ model.target # (pre.target + model.online) \div 2
====
